---- MODULE Spec2Model ----
(***************************************************************************)
(* The tunnel engine of desktop-docker-connector (desktop/service.go):     *)
(* the UDP receive loop, the TUN read loop, the control-frame push         *)
(* (sendControls) and the stop path, as a state machine.                   *)
(*                                                                         *)
(* Every step records what it did in `ev` (the datagram or packet it       *)
(* read, the peer state it saw, and each write it issued), so that the     *)
(* properties below are statements about single steps of the code.         *)
(***************************************************************************)
EXTENDS Integers, Sequences, FiniteSets, TLC

(***************************************************************************)
(* Bounds of the model.                                                    *)
(***************************************************************************)
\* The receive buffers are make([]byte, 2000); the model keeps their first
\* BufLen bytes, and no packet of the model is longer.
BufLen == 20

\* The watcher of the model sees at most MaxEvents events on the config file.
MaxEvents == 3

(***************************************************************************)
(* Addresses and their string form.                                        *)
(***************************************************************************)
\* A nil *net.UDPAddr.
nil == [ip |-> <<>>, port |-> 0]

P1 == [ip |-> <<10, 0, 0, 5>>, port |-> 40000]
P2 == [ip |-> <<10, 0, 0, 6>>, port |-> 41000]
S1 == [ip |-> <<127, 0, 0, 1>>, port |-> 9000]

\* The addresses datagrams arrive from.
Peers == {P1, P2}

\* (*net.UDPAddr).String(): "a.b.c.d:port".
AddrString(a) ==
    ToString(a.ip[1]) \o "." \o ToString(a.ip[2]) \o "." \o ToString(a.ip[3])
        \o "." \o ToString(a.ip[4]) \o ":" \o ToString(a.port)

\* net.ResolveUDPAddr("udp", s): the address s is the string form of, nil
\* (with an error) when s does not parse.
ResolveUDPAddr(s) ==
    IF \E a \in Peers : AddrString(a) = s
    THEN CHOOSE a \in Peers : AddrString(a) = s
    ELSE nil

(***************************************************************************)
(* Packets: sequences of bytes.                                            *)
(***************************************************************************)
LocalIPv4 == <<192, 168, 251, 2>>
SessIPv4 == <<1, 2, 3, 4>>
ContIPv4 == <<172, 17, 0, 2>>

\* A minimal IPv4 datagram (a 20-byte header) to dst; tos tells two
\* packets to the same destination apart.
IPv4(dst, tos) ==
    [i \in 1..20 |->
        IF i = 1 THEN 69
        ELSE IF i = 2 THEN tos
        ELSE IF i \in 17..20 THEN dst[i - 16]
        ELSE 0]

\* Bytes 16..19 of a packet that has them.
DstOf(pkt) == <<pkt[17], pkt[18], pkt[19], pkt[20]>>

Heartbeat == <<0>>

\* The datagrams the UDP socket receives in the model.
UdpPkts ==
    { Heartbeat, <<>>, <<1>>, <<1, 0>>, <<0, 0>>, <<69, 0>>,
      IPv4(LocalIPv4, 0), IPv4(SessIPv4, 0) }

\* The packets the TUN yields in the model.
TunPkts == { IPv4(LocalIPv4, 1), IPv4(ContIPv4, 1), <<69, 1>> }

\* Read(buf): the packet overwrites the buffer's first n bytes, the rest of
\* the buffer keeps what earlier reads left there.
ReadInto(buf, pkt) ==
    [i \in 1..Len(buf) |-> IF i <= Len(pkt) THEN pkt[i] ELSE buf[i]]

ZeroBuf == [i \in 1..BufLen |-> 0]

\* The uint64 sum, written as its two 16-bit halves << sum >> 16,
\* sum & 0xffff >> (TLC integers are 32-bit).
toIntIP(packet, offset0, offset1, offset2, offset3) ==
    << packet[offset0 + 1] * 256 + packet[offset1 + 1],
       packet[offset2 + 1] * 256 + packet[offset3 + 1] >>

min(a, b) == IF a < b THEN a ELSE b

(***************************************************************************)
(* The addr flag: net.ParseCIDR and the overlay addresses.                 *)
(***************************************************************************)
NoIP == <<0, 0, 0, 0>>

\* A CIDR a.b.c.d/bits.
CIDR(ip, bits) == [ok |-> TRUE, ip |-> ip, bits |-> bits]

\* A text net.ParseCIDR returns an error for.
BadCIDR == [ok |-> FALSE, ip |-> NoIP, bits |-> 0]

\* The bits of the mask of a /bits network that fall into octet i.
MaskBits(bits, i) ==
    IF bits >= 8 * i THEN 8
    ELSE IF bits <= 8 * (i - 1) THEN 0
    ELSE bits - 8 * (i - 1)

\* An octet with all but its first mb bits cleared.
MaskOctet(o, mb) == (o \div 2 ^ (8 - mb)) * 2 ^ (8 - mb)

\* The network net.ParseCIDR returns: the address masked, and the length
\* of the mask.
Network(ip, bits) ==
    [ip |-> [i \in 1..4 |-> MaskOctet(ip[i], MaskBits(bits, i))],
     bits |-> bits]

\* (*net.IPNet).Contains.
Contains(n, ip) ==
    \A i \in 1..4 : MaskOctet(ip[i], MaskBits(n.bits, i)) = n.ip[i]

\* copy(localIP, peer.To4()); localIP[3]++, on bytes.
NextIP(ip) == [ip EXCEPT ![4] = (@ + 1) % 256]

\* The addr the other models run with, and what the start makes of it.
DefaultAddr == CIDR(<<192, 168, 251, 1>>, 24)

\* The addr flags of the model of the start: last octets at the start and
\* the end of a network and of the byte, networks of 256, 4 and 1 addresses,
\* and a text that does not parse.
Addrs ==
    { CIDR(<<192, 168, 251, o>>, b) : o \in {1, 3, 255}, b \in {24, 30} }
        \cup {CIDR(<<192, 168, 251, 1>>, 32), BadCIDR}

(***************************************************************************)
(* Configuration: the iptables intents, the hosts blob and the MTU.        *)
(***************************************************************************)
NoTables == [k \in {} |-> TRUE]
OneTable == [k \in {"10.0.1.0+10.0.2.0"} |-> TRUE]
TwoTables ==
    [k \in {"10.0.1.0+10.0.2.0", "10.0.3.0-10.0.4.0"} |->
        k = "10.0.1.0+10.0.2.0"]

\* The configurations of the engine model: an empty one (payload length 0)
\* and one whose payload needs two fragments.
EngineConfigs ==
    { [tables |-> NoTables, hosts |-> 0, mtu |-> 16],
      [tables |-> OneTable, hosts |-> 0, mtu |-> 16] }

\* The configurations of the control-frame model: fragment counts from 1 up,
\* payloads below, at and above 65536 bytes, MTUs from 1 up.
ControlConfigs ==
    { [tables |-> NoTables, hosts |-> 0, mtu |-> 1400],
      [tables |-> NoTables, hosts |-> 1, mtu |-> 1400],
      [tables |-> NoTables, hosts |-> 5, mtu |-> 1],
      [tables |-> NoTables, hosts |-> 1400, mtu |-> 1400],
      [tables |-> NoTables, hosts |-> 1401, mtu |-> 1400],
      [tables |-> NoTables, hosts |-> 3200, mtu |-> 1400],
      [tables |-> OneTable, hosts |-> 0, mtu |-> 16],
      [tables |-> TwoTables, hosts |-> 11, mtu |-> 1400],
      [tables |-> TwoTables, hosts |-> 3200, mtu |-> 1400],
      [tables |-> NoTables, hosts |-> 65535, mtu |-> 1400],
      [tables |-> NoTables, hosts |-> 65536, mtu |-> 1400],
      [tables |-> NoTables, hosts |-> 65536, mtu |-> 65535],
      [tables |-> OneTable, hosts |-> 66000, mtu |-> 9000] }

(***************************************************************************)
(* State.                                                                  *)
(***************************************************************************)
VARIABLES
    addr,         \* the addr flag: a CIDR, or a text that is none
    peer,         \* the global peer: the address of the CIDR
    subnet,       \* the global subnet: the network of the CIDR
    cliAddr,      \* the -cli flag: "" or a fixed peer
    bind,         \* the bind flag
    iface,        \* run's iface: TRUE when a TUN was opened, FALSE for nil
    localIP,      \* the global localIP
    sessions,     \* the session table: destination (as toIntIP) -> address
    MTU,          \* the global MTU
    iptables,     \* the global iptables: intent key -> bool
    hosts,        \* the global hosts blob, kept as its length in bytes
    cli,          \* the global cli: the peer the TUN pump sends to
    lastCli,      \* run's lastCli
    memo,         \* the peer memo file TmpPeer
    data,         \* the UDP receive loop's buffer
    upc,          \* where run is: in its start, then in the UDP receive loop
    ctl,          \* the sendControls call in progress
    frame,        \* the datagrams the last sendControls call has sent so far
    tpc,          \* where the TUN read loop is
    tbuf,         \* the TUN read loop's buffer
    tn,           \* the TUN read loop's n
    tpkt,         \* the packet the TUN read loop read last
    checked,      \* the value of cli its nil test read, until the send
    stop,         \* Connector.stop
    spc,          \* where Stop's goroutine is
    connClosed,   \* conn.Close() was called
    ifaceClosed,  \* c.iface.Close() was called
    watching,     \* the watcher has a watch on the config file
    timer,        \* run's timer: 0 for nil, else the timer it points to
    timers,       \* the timers time.AfterFunc has made, in order
    cfgFile,      \* the routes the config file names
    routes,       \* the route table, as the last load left it
    installed,    \* the host routes this process has installed
    ev            \* the last step: what it read, saw and wrote

vars ==
    << addr, peer, subnet, cliAddr, bind, iface, localIP, sessions, MTU, iptables, hosts, cli,
       lastCli, memo, data, upc, ctl, frame, tpc, tbuf, tn, tpkt, checked,
       stop, spc,
       connClosed, ifaceClosed, watching, timer, timers, cfgFile, routes,
       installed, ev >>

params ==
    << addr, peer, subnet, cliAddr, bind, iface, localIP, sessions, MTU,
       iptables, hosts >>
udpLoop == << lastCli, memo, data, upc, ctl, frame >>
tunLoop == << tpc, tbuf, tn, tpkt, checked >>
stopPath == << stop, spc, connClosed, ifaceClosed >>
reload == << watching, timer, timers, cfgFile, routes, installed >>

NoFile == [exists |-> FALSE, text |-> ""]
File(s) == [exists |-> TRUE, text |-> s]

NoCtl == [st |-> "idle", to |-> nil, reply |-> "", l |-> 0, i |-> 0]

\* The record of a step. udp, tun, sess, cfg, push and file are the
\* sequences of the calls the step made: conn.WriteToUDP, iface.Write,
\* expose.WriteToUDP, appendConfig, sendControls and
\* ioutil.WriteFile(TmpPeer, ...).
Event(op, src, pkt) ==
    [ op |-> op, src |-> src, pkt |-> pkt,
      udp |-> <<>>, tun |-> <<>>, sess |-> <<>>, cfg |-> <<>>, push |-> <<>>,
      file |-> <<>> ]

\* A conn.WriteToUDP call: bytes given literally, or (a fragment of a
\* control payload) as the slice [lo, hi) of the reply buffer.
Send(to, kind, bytes, lo, hi, ok) ==
    [to |-> to, kind |-> kind, bytes |-> bytes, lo |-> lo, hi |-> hi, ok |-> ok]

\* An iface.Write or expose.WriteToUDP call.
Write(to, bytes, ok) == [to |-> to, bytes |-> bytes, ok |-> ok]

\* The -cli flag and the memo file run starts with: neither, a memo of an
\* earlier run, a memo that does not parse, and a fixed peer beside a memo
\* of another one.
Starts ==
    { [flag |-> "", file |-> NoFile],
      [flag |-> "", file |-> File(AddrString(P1))],
      [flag |-> "", file |-> File("garbage")],
      [flag |-> AddrString(P1), file |-> File(AddrString(P2))] }

\* The peer run starts with: the memo file's when there is no -cli and the
\* file reads and parses, the -cli address when it parses, else nil.
InitPeer(flag, file) ==
    IF flag = ""
    THEN IF file.exists THEN ResolveUDPAddr(file.text) ELSE nil
    ELSE ResolveUDPAddr(flag)

\* The state when run has started its loops.
InitWith(configs) ==
    /\ \E s \in Starts :
          /\ cliAddr = s.flag
          /\ memo = s.file
    /\ \E b \in BOOLEAN, t \in BOOLEAN :
          /\ bind = b
          /\ iface = (b /\ t)
    /\ addr = DefaultAddr
    /\ peer = addr.ip
    /\ subnet = Network(addr.ip, addr.bits)
    /\ localIP = NextIP(peer)
    /\ sessions = [d \in {toIntIP(SessIPv4, 0, 1, 2, 3)} |-> S1]
    /\ \E c \in configs :
          /\ MTU = c.mtu
          /\ iptables = c.tables
          /\ hosts = c.hosts
    /\ cli = InitPeer(cliAddr, memo)
    /\ lastCli = ""
    /\ data = ZeroBuf
    /\ upc = "read"
    /\ ctl = NoCtl
    /\ frame = <<>>
    /\ tpc = IF iface THEN "read" ELSE "off"
    /\ tbuf = ZeroBuf
    /\ tn = 0
    /\ tpkt = <<>>
    /\ checked = nil
    /\ stop = FALSE
    /\ spc = "idle"
    /\ connClosed = FALSE
    /\ ifaceClosed = FALSE
    /\ ev = Event("start", nil, <<>>)

(***************************************************************************)
(* sendControls: the control payload and its frame.                        *)
(***************************************************************************)
\* The orders a range over a map with these keys can take.
Orders(keys) ==
    { o \in [1..Cardinality(keys) -> keys] :
        \A i, j \in 1..Cardinality(keys) : o[i] = o[j] => i = j }

\* EncodeTables writing the comma before every intent, the first included.
RECURSIVE EncodeTablesCommaFirst(_, _, _, _)
EncodeTablesCommaFirst(tables, order, i, reply) ==
    IF i > Len(order) THEN reply
    ELSE EncodeTablesCommaFirst(tables, order, i + 1,
            reply \o ","
                  \o (IF tables[order[i]] THEN "connect " ELSE "disconnect ")
                  \o order[i])

\* The reply buffer after the loop over tables, keys visited in `order`.
RECURSIVE EncodeTables(_, _, _, _)
EncodeTables(tables, order, i, reply) ==
    IF i > Len(order) THEN reply
    ELSE EncodeTables(tables, order, i + 1,
            reply \o (IF Len(reply) > 0 THEN "," ELSE "")
                  \o (IF tables[order[i]] THEN "connect " ELSE "disconnect ")
                  \o order[i])

\* loadHosts(&reply, hosts): the reply buffer's length once the hosts block
\* has been appended.
loadHosts(replyLen, hostsLen) == replyLen + hostsLen

\* uint16(l).
Uint16(l) == l % 65536

\* The 3-byte header sendControls sends for a payload of l bytes.
Header(l) == << 1, Uint16(l) \div 256, Uint16(l) % 256 >>

\* ChunkEnd without the min: every fragment is taken mtu bytes long.
ChunkEndNoMin(i, l, mtu) == i + mtu

\* The end of the fragment that starts at i.
ChunkEnd(i, l, mtu) == min(i + mtu, l)

\* StartControls without the test l > 0: the header is sent for an empty
\* payload too.
StartControlsNoTest(c, tables, hostsLen, order) ==
    LET reply == EncodeTables(tables, order, 1, "")
        l == loadHosts(Len(reply), hostsLen)
    IN  [ st |-> "header", to |-> c, reply |-> reply, l |-> l, i |-> 0 ]

\* sendControls(c, tables, hosts) up to its first send.
StartControls(c, tables, hostsLen, order) ==
    LET reply == EncodeTables(tables, order, 1, "")
        l == loadHosts(Len(reply), hostsLen)
    IN  [ st |-> IF l > 0 THEN "header" ELSE "empty",
          to |-> c, reply |-> reply, l |-> l, i |-> 0 ]

(***************************************************************************)
(* The start of run, without a config file.                                *)
(***************************************************************************)
\* The state when run is called: nothing parsed, no socket, no loop.
InitStart ==
    /\ addr \in Addrs
    /\ peer = NoIP
    /\ subnet = Network(NoIP, 0)
    /\ localIP = NoIP
    /\ cliAddr = ""
    /\ memo = NoFile
    /\ bind \in BOOLEAN
    /\ iface = FALSE
    /\ sessions = [d \in {toIntIP(SessIPv4, 0, 1, 2, 3)} |-> S1]
    /\ MTU = 16
    /\ iptables = OneTable
    /\ hosts = 0
    /\ cli = nil
    /\ lastCli = ""
    /\ data = ZeroBuf
    /\ upc = "start"
    /\ ctl = NoCtl
    /\ frame = <<>>
    /\ tpc = "off"
    /\ tbuf = ZeroBuf
    /\ tn = 0
    /\ tpkt = <<>>
    /\ checked = nil
    /\ stop = FALSE
    /\ spc = "idle"
    /\ connClosed = FALSE
    /\ ifaceClosed = FALSE
    /\ watching = FALSE
    /\ timer = 0
    /\ timers = <<>>
    /\ cfgFile = {}
    /\ routes = {}
    /\ installed = {}
    /\ ev = Event("run", nil, <<>>)

\* net.ParseCIDR(addr): logger.Fatal on an error, which ends the process;
\* else localIP is the address with its last byte one up, and with bind
\* the TUN is set up (iface may stay nil).
StartParse ==
    /\ upc = "start"
    /\ IF ~addr.ok
       THEN /\ upc' = "fatal"
            /\ ev' = Event("parse_failed", nil, <<>>)
            /\ UNCHANGED << peer, subnet, localIP, iface >>
       ELSE /\ peer' = addr.ip
            /\ subnet' = Network(addr.ip, addr.bits)
            /\ localIP' = NextIP(addr.ip)
            /\ \E t \in BOOLEAN : iface' = (bind /\ t)
            /\ upc' = "listen"
            /\ ev' = Event("parsed", nil, <<>>)
    /\ UNCHANGED << addr, cliAddr, bind, sessions, MTU, iptables, hosts >>
    /\ UNCHANGED << reload, cli, lastCli, memo, data, ctl, frame, tunLoop,
                    stopPath >>

\* StartListen going on to the loops when the socket could not be bound.
StartListenOn ==
    /\ upc = "listen"
    /\ \E ok \in BOOLEAN :
          ev' = Event(IF ok THEN "listening" ELSE "listen_failed", nil, <<>>)
    /\ upc' = "peer"
    /\ UNCHANGED << reload, cli, lastCli, memo, data, ctl, frame, params,
                    tunLoop, stopPath >>

\* net.ResolveUDPAddr of host:port and net.ListenUDP: logger.Fatalf on an
\* error of either, which ends the process.
StartListen ==
    /\ upc = "listen"
    /\ \E ok \in BOOLEAN :
          /\ upc' = IF ok THEN "peer" ELSE "fatal"
          /\ ev' = Event(IF ok THEN "listening" ELSE "listen_failed",
                         nil, <<>>)
    /\ UNCHANGED << reload, cli, lastCli, memo, data, ctl, frame, params,
                    tunLoop, stopPath >>

\* StartLoops with a TUN read loop that does not test iface.
StartLoopsNoTest ==
    /\ upc = "peer"
    /\ cli' = InitPeer(cliAddr, memo)
    /\ tpc' = "read"
    /\ upc' = "read"
    /\ ev' = Event("start", nil, <<>>)
    /\ UNCHANGED << reload, lastCli, memo, data, ctl, frame, tbuf, tn, tpkt,
                    checked, params, stopPath >>

\* The peer is taken from -cli or the memo file, the TUN read loop is
\* started when there is a TUN, and run enters the UDP receive loop.
StartLoops ==
    /\ upc = "peer"
    /\ cli' = InitPeer(cliAddr, memo)
    /\ tpc' = IF iface THEN "read" ELSE "off"
    /\ upc' = "read"
    /\ ev' = Event("start", nil, <<>>)
    /\ UNCHANGED << reload, lastCli, memo, data, ctl, frame, tbuf, tn, tpkt,
                    checked, params, stopPath >>

(***************************************************************************)
(* The UDP receive loop.                                                   *)
(***************************************************************************)
\* IsHeartbeat without the test of the length.
IsHeartbeatNoLen(d, n) == d[1] = 0

IsHeartbeat(d, n) == d[1] = 0 /\ n = 1

IsControl(d, n) == d[1] = 1 /\ n > 1

\* SamePeer taking every heartbeat after the first for the known peer's.
SamePeerOnceSet(last, c) == last # ""

\* SamePeer taking every heartbeat for a new peer's.
SamePeerNever(last, c) == FALSE

\* SamePeer taking the peer run started with for a known one.
SamePeerOrLoaded(last, c) ==
    \/ last = AddrString(c)
    \/ (last = "" /\ c = InitPeer(cliAddr, memo))

\* The heartbeat branch's test of lastCli against cli.String().
SamePeer(last, c) == last = AddrString(c)

\* The session sessions[dest] of a data datagram, nil when it has none.
SessionOf(d, n) ==
    LET dest == toIntIP(d, 16, 17, 18, 19)
    IN  IF dest \in DOMAIN sessions /\ n > 1 THEN sessions[dest] ELSE nil

\* The bytes handed to appendConfig.
ConfigPayload(d, n) == SubSeq(d, 2, n)

\* SaveMemo writing the file when -cli is set too.
SaveMemoAlways(file, text, ok) ==
    IF ok THEN File(text) ELSE file

\* ioutil.WriteFile(TmpPeer, ...) unless -cli is set.
SaveMemo(file, text, ok) ==
    IF cliAddr = "" /\ ok THEN File(text) ELSE file

\* One iteration of the loop whose read succeeds, up to the next read or to
\* the first send of sendControls.
UdpRecv ==
    /\ upc = "read"
    /\ ~connClosed
    /\ \E src \in Peers, pkt \in UdpPkts :
        LET n == Len(pkt)
            d == ReadInto(data, pkt)
            e == Event("data", src, pkt)
            sess == SessionOf(d, n)
        IN  /\ data' = d
            /\ cli' = src
            /\ frame' = <<>>
            /\ IF IsHeartbeat(d, n)
               THEN IF SamePeer(lastCli, src)
                    THEN /\ ev' = [e EXCEPT !.op = "heartbeat"]
                         /\ ctl' = NoCtl
                         /\ UNCHANGED << lastCli, memo, upc >>
                    ELSE \E wok \in BOOLEAN, order \in Orders(DOMAIN iptables) :
                         LET c == StartControls(src, iptables, hosts, order)
                         IN  /\ lastCli' = AddrString(src)
                             /\ memo' = SaveMemo(memo, AddrString(src), wok)
                             /\ ctl' = c
                             /\ upc' = IF c.st = "header" THEN "header" ELSE "read"
                             /\ ev' = [e EXCEPT
                                      !.op = "heartbeat",
                                      !.push = <<src>>,
                                      !.file = IF cliAddr = "" THEN
                                         <<Write(nil, AddrString(src), wok)>>
                                         ELSE <<>>]
               ELSE IF IsControl(d, n)
               THEN /\ ev' = [e EXCEPT !.op = "config",
                                       !.cfg = <<ConfigPayload(d, n)>>]
                    /\ ctl' = NoCtl
                    /\ UNCHANGED << lastCli, memo, upc >>
               ELSE /\ ctl' = NoCtl
                    /\ UNCHANGED << lastCli, memo, upc >>
                    /\ IF sess # nil
                       THEN \E ok \in BOOLEAN :
                            ev' = [e EXCEPT
                                     !.sess = <<Write(sess, SubSeq(d, 1, n), ok)>>]
                       ELSE IF bind /\ iface
                       THEN \E ok \in (IF ifaceClosed THEN {FALSE} ELSE BOOLEAN) :
                            ev' = [e EXCEPT
                                     !.tun = <<Write(nil, SubSeq(d, 1, n), ok)>>]
                       ELSE ev' = e
    /\ UNCHANGED << reload, params, tunLoop, stopPath >>

\* UdpRecvErr leaving the loop on every error.
UdpRecvErrBreak ==
    /\ upc = "read"
    /\ cli' = nil
    /\ upc' = "exit"
    /\ ctl' = NoCtl
    /\ frame' = <<>>
    /\ ev' = Event("udp_err", nil, <<>>)
    /\ UNCHANGED << reload, lastCli, memo, data, params, tunLoop, stopPath >>

\* An iteration whose read fails: ReadFromUDP returns a nil address, which
\* the loop has assigned to cli before it looks at the error.
UdpRecvErr ==
    /\ upc = "read"
    /\ cli' = nil
    /\ upc' = IF stop THEN "exit" ELSE "read"
    /\ ctl' = NoCtl
    /\ frame' = <<>>
    /\ ev' = Event("udp_err", nil, <<>>)
    /\ UNCHANGED << reload, lastCli, memo, data, params, tunLoop, stopPath >>

\* CtlHeader going on to the fragments when the send of the header failed.
CtlHeaderGoOn ==
    /\ upc = "header"
    /\ \E ok \in (IF connClosed THEN {FALSE} ELSE BOOLEAN) :
        LET s == Send(ctl.to, "header", Header(ctl.l), 0, 0, ok)
        IN  /\ frame' = Append(frame, s)
            /\ ev' = [Event("ctl_header", nil, <<>>) EXCEPT !.udp = <<s>>]
            /\ upc' = "chunk"
            /\ ctl' = [ctl EXCEPT !.st = "chunk"]
    /\ UNCHANGED << reload, cli, lastCli, memo, data, params, tunLoop,
                    stopPath >>

\* sendControls sends the header.
CtlHeader ==
    /\ upc = "header"
    /\ \E ok \in (IF connClosed THEN {FALSE} ELSE BOOLEAN) :
        LET s == Send(ctl.to, "header", Header(ctl.l), 0, 0, ok)
        IN  /\ frame' = Append(frame, s)
            /\ ev' = [Event("ctl_header", nil, <<>>) EXCEPT !.udp = <<s>>]
            /\ upc' = IF ok THEN "chunk" ELSE "read"
            /\ ctl' = [ctl EXCEPT !.st = IF ok THEN "chunk" ELSE "failed"]
    /\ UNCHANGED << reload, cli, lastCli, memo, data, params, tunLoop,
                    stopPath >>

\* CtlChunk returning to the read after every fragment.
CtlChunkYield ==
    /\ upc = "chunk"
    /\ \E ok \in (IF connClosed THEN {FALSE} ELSE BOOLEAN) :
        LET hi == ChunkEnd(ctl.i, ctl.l, MTU)
            s == Send(ctl.to, "chunk", <<>>, ctl.i, hi, ok)
            more == ctl.i + MTU < ctl.l
        IN  /\ frame' = Append(frame, s)
            /\ ev' = [Event("ctl_chunk", nil, <<>>) EXCEPT !.udp = <<s>>]
            /\ upc' = "read"
            /\ ctl' = [ctl EXCEPT
                         !.i = IF ok THEN ctl.i + MTU ELSE ctl.i,
                         !.st = IF ~ok THEN "failed"
                                ELSE IF more THEN "chunk" ELSE "done"]
    /\ UNCHANGED << reload, cli, lastCli, memo, data, params, tunLoop,
                    stopPath >>

\* sendControls sends the fragment that starts at i.
CtlChunk ==
    /\ upc = "chunk"
    /\ \E ok \in (IF connClosed THEN {FALSE} ELSE BOOLEAN) :
        LET hi == ChunkEnd(ctl.i, ctl.l, MTU)
            s == Send(ctl.to, "chunk", <<>>, ctl.i, hi, ok)
            more == ctl.i + MTU < ctl.l
        IN  /\ frame' = Append(frame, s)
            /\ ev' = [Event("ctl_chunk", nil, <<>>) EXCEPT !.udp = <<s>>]
            /\ upc' = IF ok /\ more THEN "chunk" ELSE "read"
            /\ ctl' = [ctl EXCEPT
                         !.i = IF ok THEN ctl.i + MTU ELSE ctl.i,
                         !.st = IF ~ok THEN "failed"
                                ELSE IF more THEN "chunk" ELSE "done"]
    /\ UNCHANGED << reload, cli, lastCli, memo, data, params, tunLoop,
                    stopPath >>

(***************************************************************************)
(* The TUN read loop.                                                      *)
(***************************************************************************)
\* IsLocal reading the source address, bytes 12..15, for the destination.
IsLocalSource(buf) ==
    /\ localIP[1] = buf[13]
    /\ localIP[2] = buf[14]
    /\ localIP[3] = buf[15]
    /\ localIP[4] = buf[16]

\* The loop's test of bytes 16..19 of its buffer against localIP.
IsLocal(buf) ==
    /\ localIP[1] = buf[17]
    /\ localIP[2] = buf[18]
    /\ localIP[3] = buf[19]
    /\ localIP[4] = buf[20]

\* buf[:n-1]: Slice one byte short.
SliceShort(buf, n) == SubSeq(buf, 1, n - 1)

\* buf[:n].
Slice(buf, n) == SubSeq(buf, 1, n)

\* TunRead without the test of cli against nil.
TunReadNoNilTest ==
    /\ tpc = "read"
    /\ ~ifaceClosed
    /\ \E pkt \in TunPkts :
        LET buf == ReadInto(tbuf, pkt)
            n == Len(pkt)
            e == Event("tun_read", nil, pkt)
        IN  /\ tbuf' = buf
            /\ tn' = n
            /\ tpkt' = pkt
            /\ IF IsLocal(buf)
               THEN /\ \E ok \in BOOLEAN :
                        ev' = [e EXCEPT !.tun = <<Write(nil, Slice(buf, n), ok)>>]
                    /\ tpc' = "read"
                    /\ checked' = nil
               ELSE /\ ev' = e
                    /\ tpc' = "send"
                    /\ checked' = cli
    /\ UNCHANGED << reload, cli, udpLoop, params, stopPath >>

\* One iteration whose read succeeds, up to the next read or to the UDP
\* send.
TunRead ==
    /\ tpc = "read"
    /\ ~ifaceClosed
    /\ \E pkt \in TunPkts :
        LET buf == ReadInto(tbuf, pkt)
            n == Len(pkt)
            e == Event("tun_read", nil, pkt)
        IN  /\ tbuf' = buf
            /\ tn' = n
            /\ tpkt' = pkt
            /\ IF IsLocal(buf)
               THEN /\ \E ok \in BOOLEAN :
                        ev' = [e EXCEPT !.tun = <<Write(nil, Slice(buf, n), ok)>>]
                    /\ tpc' = "read"
                    /\ checked' = nil
               ELSE IF cli = nil
               THEN /\ ev' = e
                    /\ tpc' = "read"
                    /\ checked' = nil
               ELSE /\ ev' = e
                    /\ tpc' = "send"
                    /\ checked' = cli
    /\ UNCHANGED << reload, cli, udpLoop, params, stopPath >>

\* An iteration whose read fails.
TunReadErr ==
    /\ tpc = "read"
    /\ tpc' = IF stop THEN "exit" ELSE "read"
    /\ ev' = Event("tun_err", nil, <<>>)
    /\ UNCHANGED << reload, cli, tbuf, tn, tpkt, checked, udpLoop, params,
                    stopPath >>

\* TunSend going on to a second send of the same packet.
TunSendAgain ==
    /\ tpc = "send"
    /\ \E ok \in (IF connClosed \/ cli = nil THEN {FALSE} ELSE BOOLEAN) :
        ev' = [Event("tun_send", nil, tpkt) EXCEPT
                 !.udp = <<Send(cli, "data", Slice(tbuf, tn), 0, 0, ok)>>]
    /\ tpc' = "send"
    /\ UNCHANGED << reload, cli, tbuf, tn, tpkt, checked, udpLoop, params,
                    stopPath >>

\* TunSend forgetting the peer when the send fails.
TunSendDropPeer ==
    /\ tpc = "send"
    /\ \E ok \in (IF connClosed \/ cli = nil THEN {FALSE} ELSE BOOLEAN) :
        /\ ev' = [Event("tun_send", nil, tpkt) EXCEPT
                    !.udp = <<Send(cli, "data", Slice(tbuf, tn), 0, 0, ok)>>]
        /\ cli' = IF ok THEN cli ELSE nil
    /\ tpc' = "read"
    /\ checked' = nil
    /\ UNCHANGED << reload, tbuf, tn, tpkt, udpLoop, params, stopPath >>

\* conn.WriteToUDP(buf[:n], cli), with cli read again. A nil address makes
\* the call fail without a datagram.
TunSend ==
    /\ tpc = "send"
    /\ \E ok \in (IF connClosed \/ cli = nil THEN {FALSE} ELSE BOOLEAN) :
        ev' = [Event("tun_send", nil, tpkt) EXCEPT
                 !.udp = <<Send(cli, "data", Slice(tbuf, tn), 0, 0, ok)>>]
    /\ tpc' = "read"
    /\ checked' = nil
    /\ UNCHANGED << reload, cli, tbuf, tn, tpkt, udpLoop, params, stopPath >>

(***************************************************************************)
(* The watcher of the config file and the reload timer.                    *)
(***************************************************************************)
\* time.Duration(2)*time.Second, in ticks of the model's clock.
Debounce == 2

R1 == "172.20.0.0/16"
R2 == "172.21.0.0/16"

\* The route sets a config file of the model names.
RouteSets == SUBSET {R1, R2}

\* A run without a config file, or with watch off: no watcher, no timer.
WatchOff ==
    /\ watching = FALSE
    /\ timer = 0
    /\ timers = <<>>
    /\ cfgFile = {}
    /\ routes = {}
    /\ installed = {}

\* A run with a config file and watch on: loadConfig(iface, true) has
\* loaded the file's routes and installed them, and the watch is added.
WatchOn ==
    /\ watching = TRUE
    /\ timer = 0
    /\ timers = <<>>
    /\ cfgFile \in RouteSets
    /\ routes = cfgFile
    /\ installed = cfgFile

\* timer.Stop(): an armed timer is stopped, a timer that has fired is not.
StopTimer(ts, t) ==
    IF t # 0 /\ ts[t].st = "armed"
    THEN [ts EXCEPT ![t].st = "stopped"]
    ELSE ts

\* time.AfterFunc(2 s, loader): one more timer, armed.
AfterFunc(ts) == Append(ts, [st |-> "armed", left |-> Debounce])

\* loadConfig(iface, false) on the routes: the host routes of the routes
\* that have gone are removed, those of the routes that have come are
\* installed.
ReloadRoutes(inst, old, new) == (inst \ (old \ new)) \cup (new \ old)

\* The watcher goroutine takes a write or a rename event: the file may
\* have new content; timer is stopped when it is not nil and a new one is
\* armed. After a rename the watch is moved to the event's name, which
\* can fail. The watcher is closed when run returns.
FileEvent ==
    /\ watching
    /\ upc # "exit"
    /\ Len(timers) < MaxEvents
    /\ \E kind \in {"fs_write", "fs_rename"}, c \in RouteSets,
          rewatch \in BOOLEAN :
          /\ cfgFile' = c
          /\ timers' = AfterFunc(StopTimer(timers, timer))
          /\ timer' = Len(timers) + 1
          /\ watching' = IF kind = "fs_rename" THEN rewatch ELSE TRUE
          /\ ev' = Event(kind, nil, <<>>)
    /\ UNCHANGED << routes, installed, cli, udpLoop, tunLoop, params,
                    stopPath >>

\* Time passes: every armed timer is one tick nearer to its time.
Tick ==
    /\ \E k \in 1..Len(timers) : timers[k].st = "armed" /\ timers[k].left > 0
    /\ timers' =
          [k \in 1..Len(timers) |->
              IF timers[k].st = "armed" /\ timers[k].left > 0
              THEN [timers[k] EXCEPT !.left = @ - 1]
              ELSE timers[k]]
    /\ ev' = Event("tick", nil, <<>>)
    /\ UNCHANGED << watching, timer, cfgFile, routes, installed, cli,
                    udpLoop, tunLoop, params, stopPath >>

\* An armed timer's time has come: its loader is started in a goroutine
\* of its own.
TimerFire ==
    /\ \E k \in 1..Len(timers) :
          /\ timers[k].st = "armed"
          /\ timers[k].left = 0
          /\ timers' = [timers EXCEPT ![k].st = "fired"]
    /\ ev' = Event("fire", nil, <<>>)
    /\ UNCHANGED << watching, timer, cfgFile, routes, installed, cli,
                    udpLoop, tunLoop, params, stopPath >>

\* loader: timer = nil, then loadConfig(iface, false).
Loader ==
    /\ \E k \in 1..Len(timers) :
          /\ timers[k].st = "fired"
          /\ timers' = [timers EXCEPT ![k].st = "done"]
    /\ timer' = 0
    /\ routes' = cfgFile
    /\ installed' = ReloadRoutes(installed, routes, cfgFile)
    /\ ev' = Event("reload", nil, <<>>)
    /\ UNCHANGED << watching, cfgFile, cli, udpLoop, tunLoop, params,
                    stopPath >>

\* The dynamic tables of the config file before and after an edit of it.
OldGen == [tables |-> OneTable, hosts |-> 0]
NewGen == [tables |-> TwoTables, hosts |-> 11]

\* loadConfig(iface, false) stores the rebuilt iptables table in the global
\* iptables.
LoadTables ==
    /\ watching
    /\ iptables = OldGen.tables
    /\ iptables' = NewGen.tables
    /\ ev' = Event("load_tables", nil, <<>>)
    /\ UNCHANGED << addr, peer, subnet, cliAddr, bind, iface, localIP,
                    sessions, MTU, hosts >>
    /\ UNCHANGED << reload, cli, udpLoop, tunLoop, stopPath >>

\* loadConfig(iface, false) stores the rebuilt hosts block in the global
\* hosts.
LoadHosts ==
    /\ watching
    /\ hosts = OldGen.hosts
    /\ hosts' = NewGen.hosts
    /\ ev' = Event("load_hosts", nil, <<>>)
    /\ UNCHANGED << addr, peer, subnet, cliAddr, bind, iface, localIP,
                    sessions, MTU, iptables >>
    /\ UNCHANGED << reload, cli, udpLoop, tunLoop, stopPath >>

(***************************************************************************)
(* Connector.Stop.                                                         *)
(***************************************************************************)
\* Connector.Start called again once Stop has run: c.stop = false. The
\* loops of the run that was stopped read the same flag.
Start ==
    /\ stop
    /\ spc = "done"
    /\ stop' = FALSE
    /\ ev' = Event("restart", nil, <<>>)
    /\ UNCHANGED << reload, spc, connClosed, ifaceClosed, cli, udpLoop,
                    tunLoop, params >>

\* Stop starting its goroutine with the flag left as it was.
StopNoFlag ==
    /\ spc = "idle"
    /\ stop' = stop
    /\ spc' = "routes"
    /\ ev' = Event("stop", nil, <<>>)
    /\ UNCHANGED << reload, connClosed, ifaceClosed, cli, udpLoop, tunLoop,
                    params >>

\* c.stop = true, and the goroutine is started.
Stop ==
    /\ ~stop
    /\ stop' = TRUE
    /\ spc' = "routes"
    /\ ev' = Event("stop", nil, <<>>)
    /\ UNCHANGED << reload, connClosed, ifaceClosed, cli, udpLoop, tunLoop,
                    params >>

\* clearRoutes(): every host route this process has installed is removed.
clearRoutes(inst) == {}

\* The goroutine of Stop calls clearRoutes().
StopClearRoutes ==
    /\ spc = "routes"
    /\ spc' = "conn"
    /\ installed' = clearRoutes(installed)
    /\ ev' = Event("stop_routes", nil, <<>>)
    /\ UNCHANGED << watching, timer, timers, cfgFile, routes >>
    /\ UNCHANGED << stop, connClosed, ifaceClosed, cli, udpLoop, tunLoop,
                    params >>

\* conn != nil: run has bound the UDP socket.
ConnSet == upc \notin {"start", "listen", "fatal"}

\* c.iface != nil: run has a TUN and has stored it in the connector.
IfaceSet == iface /\ upc \notin {"start", "listen", "peer", "fatal"}

\* conn.Close(), when conn is not nil.
StopCloseConn ==
    /\ spc = "conn"
    /\ spc' = "iface"
    /\ connClosed' = ConnSet
    /\ ev' = Event("stop_conn", nil, <<>>)
    /\ UNCHANGED << reload, stop, ifaceClosed, cli, udpLoop, tunLoop, params >>

\* StopCloseIface without the close of the TUN.
StopLeaveIface ==
    /\ spc = "iface"
    /\ spc' = "done"
    /\ ev' = Event("stop_iface", nil, <<>>)
    /\ UNCHANGED << reload, stop, connClosed, ifaceClosed, cli, udpLoop,
                    tunLoop,
                    params >>

\* c.iface.Close(), when c.iface is not nil.
StopCloseIface ==
    /\ spc = "iface"
    /\ spc' = "done"
    /\ ifaceClosed' = IfaceSet
    /\ ev' = Event("stop_iface", nil, <<>>)
    /\ UNCHANGED << reload, stop, connClosed, cli, udpLoop, tunLoop, params >>

(***************************************************************************)
(* Specifications.                                                         *)
(***************************************************************************)
Init == InitWith(EngineConfigs) /\ WatchOff

NextStop ==
    \/ UdpRecv
    \/ UdpRecvErr
    \/ CtlHeader
    \/ CtlChunk
    \/ TunRead
    \/ TunReadErr
    \/ TunSend
    \/ Stop
    \/ StopClearRoutes
    \/ StopCloseConn
    \/ StopCloseIface

\* Both loops of a running connector, interleaved.
Next ==
    \/ UdpRecv
    \/ UdpRecvErr
    \/ CtlHeader
    \/ CtlChunk
    \/ TunRead
    \/ TunReadErr
    \/ TunSend

Spec == Init /\ [][Next]_vars

\* The UDP receive loop and its control frames on their own, over the
\* control-frame configurations. Without a TUN the read loop returns at
\* once, and it writes nothing the receive loop reads.
InitControl ==
    /\ InitWith(ControlConfigs)
    /\ cliAddr = ""
    /\ memo = NoFile
    /\ ~bind
    /\ WatchOff

NextControl ==
    \/ UdpRecv
    \/ UdpRecvErr
    \/ CtlHeader
    \/ CtlChunk

SpecControl == InitControl /\ [][NextControl]_vars

\* The loops and the stop path, started without -cli and without a memo file.
InitStop ==
    /\ InitWith({[tables |-> OneTable, hosts |-> 0, mtu |-> 16]})
    /\ cliAddr = ""
    /\ memo = NoFile
    /\ WatchOff

SpecStop == InitStop /\ [][NextStop]_vars

\* The scheduling of a stopping connector: the goroutine of Stop runs to its
\* end, a loop that is not blocked in a read takes its next step, and a read
\* of a closed socket or a closed TUN returns with an error.
FairStop ==
    /\ WF_vars(StopClearRoutes)
    /\ WF_vars(StopCloseConn)
    /\ WF_vars(StopCloseIface)
    /\ WF_vars(CtlHeader)
    /\ WF_vars(CtlChunk)
    /\ WF_vars(TunSend)
    /\ WF_vars(UdpRecvErr /\ connClosed)
    /\ WF_vars(TunReadErr /\ ifaceClosed)

SpecStopFair == SpecStop /\ FairStop

\* The watcher, the reload timer and the stop path of a run with a config
\* file, watch on and a TUN; the receive loop is there for its exit, which
\* closes the watcher.
InitReload ==
    /\ InitWith({[tables |-> NoTables, hosts |-> 0, mtu |-> 1400]})
    /\ cliAddr = ""
    /\ memo = NoFile
    /\ iface
    /\ WatchOn

NextReload ==
    \/ FileEvent
    \/ Tick
    \/ TimerFire
    \/ Loader
    \/ Stop
    \/ StopClearRoutes
    \/ StopCloseConn
    \/ StopCloseIface
    \/ UdpRecvErr

SpecReload == InitReload /\ [][NextReload]_vars

\* The UDP receive loop and its control frames beside one reload of the
\* dynamic tables, which the loader goroutine stores one global after the
\* other, in either order.
InitPush ==
    /\ InitWith({[tables |-> OldGen.tables, hosts |-> OldGen.hosts,
                  mtu |-> 16]})
    /\ cliAddr = ""
    /\ memo = NoFile
    /\ ~bind
    /\ WatchOn

NextPush ==
    \/ UdpRecv
    \/ UdpRecvErr
    \/ CtlHeader
    \/ CtlChunk
    \/ LoadTables
    \/ LoadHosts

SpecPush == InitPush /\ [][NextPush]_vars

\* run from its call on, without a config file: the start, then both
\* loops.
NextStart ==
    \/ StartParse
    \/ StartListen
    \/ StartLoops
    \/ Next

SpecStart == InitStart /\ [][NextStart]_vars

\* The loops of a run with a TUN, Stop, and Start called again after it.
InitRestart ==
    /\ InitStop
    /\ iface

NextRestart ==
    \/ NextStop
    \/ Start

SpecRestart == InitRestart /\ [][NextRestart]_vars

\* run from its call on, with the default address and bind, and Stop
\* called at any point of it.
InitStartStop ==
    /\ InitStart
    /\ addr = DefaultAddr
    /\ bind

NextStartStop ==
    \/ NextStart
    \/ Stop
    \/ StopClearRoutes
    \/ StopCloseConn
    \/ StopCloseIface

SpecStartStop == InitStartStop /\ [][NextStartStop]_vars

(***************************************************************************)
(* Properties.                                                             *)
(***************************************************************************)
\* The steps of the UDP receive loop that handled a datagram.
UdpOps == {"heartbeat", "config", "data"}

\* What the wire format makes of a datagram: its class by its own first
\* byte and length.
ClassOf(pkt) ==
    IF Len(pkt) = 1 /\ pkt[1] = 0 THEN "heartbeat"
    ELSE IF Len(pkt) > 1 /\ pkt[1] = 1 THEN "config"
    ELSE "data"

\* A packet long enough to have a destination, bytes 16..19.
HasDst(pkt) == Len(pkt) >= 20

C2_TunLoopback ==
    (ev.op = "tun_read" /\ HasDst(ev.pkt) /\ DstOf(ev.pkt) = localIP)
        => /\ Len(ev.tun) = 1
           /\ ev.tun[1].bytes = ev.pkt
           /\ ev.udp = <<>>
           /\ tpc = "read"

C2_Witness ==
    /\ ev.op = "tun_read"
    /\ ev.pkt = IPv4(LocalIPv4, 1)
    /\ cli = nil
    /\ ev.tun = <<Write(nil, IPv4(LocalIPv4, 1), TRUE)>>

C4_PushTrigger ==
    [][ /\ ev'.op \in UdpOps
            => ev'.push =
                 IF ev'.pkt = Heartbeat /\ AddrString(ev'.src) # lastCli
                 THEN <<ev'.src>> ELSE <<>>
        /\ ev'.op \notin UdpOps => ev'.push = <<>>
        /\ ev'.push # <<>>
            => (ctl'.to = ev'.src /\ ctl'.st \in {"header", "empty"}) ]_vars

C4_Witness ==
    /\ ev.op = "heartbeat"
    /\ ev.src = P2
    /\ ev.push = <<P2>>
    /\ upc = "header"
    /\ ctl.to = P2

\* C5, as the specification states it: a datagram with first byte 1 and
\* length n > 1 hands its n-1 payload bytes to appendConfig once and changes
\* nothing else: the peer, lastCli and the memo file keep their values, and
\* nothing is written to the TUN, a session socket or the UDP socket.
C5_AsClaimed ==
    [][ (ev'.op \in UdpOps /\ Len(ev'.pkt) > 1 /\ ev'.pkt[1] = 1)
            => /\ ev'.cfg = <<Tail(ev'.pkt)>>
               /\ cli' = cli
               /\ lastCli' = lastCli
               /\ memo' = memo
               /\ ev'.tun = <<>>
               /\ ev'.sess = <<>>
               /\ ev'.udp = <<>> ]_vars

\* C6, as the specification states it: once the peer is set it stays set.
C6_AsClaimed == [][ cli # nil => cli' # nil ]_vars

\* The session of a datagram's own destination, nil when it has none.
OwnSession(pkt) ==
    IF HasDst(pkt) /\ toIntIP(pkt, 16, 17, 18, 19) \in DOMAIN sessions
    THEN sessions[toIntIP(pkt, 16, 17, 18, 19)]
    ELSE nil

\* C7, as the specification states it: a data datagram whose destination is a
\* key of the session table is written once to the mapped address and not to
\* the TUN; any other is written once to the TUN when bind is set and the TUN
\* is there, and is dropped otherwise.
C7_AsClaimed ==
    (ev.op \in UdpOps /\ ClassOf(ev.pkt) = "data")
        => IF OwnSession(ev.pkt) # nil
           THEN /\ Len(ev.sess) = 1
                /\ ev.sess[1].to = OwnSession(ev.pkt)
                /\ ev.sess[1].bytes = ev.pkt
                /\ ev.tun = <<>>
           ELSE IF bind /\ iface
           THEN /\ ev.sess = <<>>
                /\ Len(ev.tun) = 1
                /\ ev.tun[1].bytes = ev.pkt
           ELSE ev.sess = <<>> /\ ev.tun = <<>>

\* C8: the receive loop handles a datagram as what its own first byte and
\* length make it: a heartbeat (no config bytes, nothing written), a config
\* push (its bytes handed on once, no control push, nothing written) or
\* data (no config bytes, no control push, at most one write).
C8_Classification ==
    ev.op \in UdpOps
        => /\ ev.op = ClassOf(ev.pkt)
           /\ ev.op = "heartbeat"
                => (ev.cfg = <<>> /\ ev.tun = <<>> /\ ev.sess = <<>>)
           /\ ev.op = "config"
                => (Len(ev.cfg) = 1 /\ ev.push = <<>> /\ ev.tun = <<>>
                        /\ ev.sess = <<>>)
           /\ ev.op = "data"
                => (ev.cfg = <<>> /\ ev.push = <<>>
                        /\ Len(ev.tun) + Len(ev.sess) <= 1)

C8_Witness ==
    /\ ev.op = "data"
    /\ ev.pkt = <<0, 0>>
    /\ Len(ev.tun) = 1

\* The payload bytes of the chunks frame[from..].
RECURSIVE ChunkBytes(_, _)
ChunkBytes(f, from) ==
    IF from > Len(f) THEN 0
    ELSE (f[from].hi - f[from].lo) + ChunkBytes(f, from + 1)

\* C9, as the specification states it: the header of a frame sent whole is
\* [1, (L >> 8) & 0xFF, L & 0xFF] and the length it carries is the number of
\* payload bytes sent after it.
C9_AsClaimed ==
    ctl.st = "done"
        => /\ frame[1].bytes = << 1, (ctl.l \div 256) % 256, ctl.l % 256 >>
           /\ frame[1].bytes[2] * 256 + frame[1].bytes[3]
                = ChunkBytes(frame, 2)

\* C10: a frame sent whole for a payload of L > 0 bytes is one 3-byte
\* header and then ceil(L/MTU) fragments, each to the same peer, none
\* empty, none over MTU bytes, each starting where the one before ended,
\* the first at 0 and the last ending at L.
C10_Fragments ==
    ctl.st = "done"
        => /\ ctl.l > 0
           /\ Len(frame) = 1 + (ctl.l + MTU - 1) \div MTU
           /\ frame[1].kind = "header"
           /\ Len(frame[1].bytes) = 3
           /\ \A k \in 1..Len(frame) : frame[k].to = ctl.to /\ frame[k].ok
           /\ \A k \in 2..Len(frame) :
                /\ frame[k].kind = "chunk"
                /\ frame[k].lo < frame[k].hi
                /\ frame[k].hi - frame[k].lo <= MTU
                /\ frame[k].lo = IF k = 2 THEN 0 ELSE frame[k - 1].hi
           /\ frame[Len(frame)].hi = ctl.l

C10_Witness ==
    /\ ctl.st = "done"
    /\ ctl.l = 3200
    /\ MTU = 1400
    /\ [k \in 1..Len(frame) |-> frame[k].hi - frame[k].lo]
            = <<0, 1400, 1400, 400>>

\* One intent of the iptables table on the wire.
Intent(k) == (IF iptables[k] THEN "connect" ELSE "disconnect") \o " " \o k

\* The first n intents of an order of the keys, with a comma between each
\* two.
RECURSIVE JoinIntents(_, _)
JoinIntents(order, n) ==
    IF n = 0 THEN ""
    ELSE IF n = 1 THEN Intent(order[1])
    ELSE JoinIntents(order, n - 1) \o "," \o Intent(order[n])

\* C11: the payload of every control push is, for some order of the keys of
\* the iptables table that names each key once, the intents "connect <key>"
\* (value true) or "disconnect <key>" (value false) with a comma between
\* each two and none before or after, followed by the hosts block: the
\* payload length is the length of that text plus the length of the block.
C11_PayloadEncoding ==
    ctl.st # "idle"
        => /\ \E o \in Orders(DOMAIN iptables) :
                ctl.reply = JoinIntents(o, Cardinality(DOMAIN iptables))
           /\ ctl.l = Len(ctl.reply) + hosts

C11_Witness ==
    /\ ctl.st = "done"
    /\ ctl.reply = "disconnect 10.0.3.0-10.0.4.0,connect 10.0.1.0+10.0.2.0"
    /\ hosts = 11
    /\ ctl.l = 65

\* C12: a control push whose payload length is 0 sends no datagram, neither
\* header nor fragment, and the loop goes back to its read; the heartbeat
\* that started it has still set lastCli to its source and left the memo
\* file holding that string, or as it was when the file is not written. A
\* header or a fragment is only ever sent for a payload of more than 0
\* bytes.
C12_EmptyFrame ==
    [][ /\ (ev'.push # <<>> /\ ctl'.l = 0)
            => /\ ev'.udp = <<>>
               /\ frame' = <<>>
               /\ upc' = "read"
               /\ lastCli' = AddrString(ev'.src)
               /\ lastCli' # lastCli
               /\ memo' \in {memo, File(AddrString(ev'.src))}
        /\ ev'.op \in {"ctl_header", "ctl_chunk"} => ctl'.l > 0 ]_vars

C12_Witness ==
    /\ ev.op = "heartbeat"
    /\ ev.push = <<P2>>
    /\ ctl.st = "empty"
    /\ ctl.l = 0
    /\ ev.udp = <<>>
    /\ frame = <<>>
    /\ lastCli = AddrString(P2)
    /\ memo = File(AddrString(P2))

\* A heartbeat from an address other than lastCli's: the peer change of
\* the heartbeat branch.
PeerChange(e, last) ==
    e.op \in UdpOps /\ e.pkt = Heartbeat /\ AddrString(e.src) # last

\* What a step does to the memo file: a peer-changing heartbeat writes the
\* new peer's string form once when -cli is not set, and the file holds it
\* when the write succeeded and its old content when not; with -cli set,
\* and on every other step, the file is not written.
MemoStep ==
    IF PeerChange(ev', lastCli) /\ cliAddr = ""
    THEN /\ Len(ev'.file) = 1
         /\ ev'.file[1].bytes = AddrString(ev'.src)
         /\ memo' = IF ev'.file[1].ok THEN File(AddrString(ev'.src)) ELSE memo
    ELSE ev'.file = <<>> /\ memo' = memo

\* With -cli set the peer run starts with is the -cli address, whatever the
\* memo file holds.
MemoNotRead ==
    (ev.op = "start" /\ cliAddr # "") => cli = ResolveUDPAddr(cliAddr)

MemoPeer == IF memo.exists THEN ResolveUDPAddr(memo.text) ELSE nil

\* C14, as the specification states it: started without -cli, and until
\* the first heartbeat has arrived (lastCli is still empty), the peer is
\* the one the memo file names; a packet read from the TUN in that time
\* for a destination other than localIP is sent to that peer, once and
\* whole, and is dropped when the memo file names none.
C14_AsClaimed ==
    (cliAddr = "" /\ lastCli = "")
        => /\ cli = MemoPeer
           /\ (ev.op = "tun_read" /\ HasDst(ev.pkt)
                    /\ DstOf(ev.pkt) # localIP)
                => /\ ev.udp = <<>>
                   /\ ev.tun = <<>>
                   /\ tpc = IF MemoPeer # nil THEN "send" ELSE "read"
           /\ ev.op = "tun_send"
                => ev.udp = <<Send(MemoPeer, "data", ev.pkt, 0, 0,
                                   ev.udp[1].ok)>>

\* C15: once stop is set, the UDP receive loop and the TUN read loop (when
\* there is a TUN, and so a loop) both exit in the end; and a loop exits
\* only by a step that found stop set after a read that returned an error.
C15_ShutdownLiveness ==
    /\ stop ~> (upc = "exit" /\ tpc = IF iface THEN "exit" ELSE "off")
    /\ [][ /\ (upc' = "exit" /\ upc # "exit")
                => (stop /\ ev'.op = "udp_err")
           /\ (tpc' = "exit" /\ tpc # "exit")
                => (stop /\ ev'.op = "tun_err") ]_vars

C15_Witness ==
    /\ stop
    /\ spc = "done"
    /\ connClosed
    /\ ifaceClosed
    /\ upc = "exit"
    /\ tpc = "exit"

\* C16, as the specification states it: once the goroutine of Stop has
\* run to its end no host route of this process is installed.
C16_AsClaimed == spc = "done" => installed = {}

\* The timers that are armed.
Armed(ts) == { k \in 1..Len(ts) : ts[k].st = "armed" }

\* C20, as the specification states it: at most one timer is armed at any
\* time; an event on the config file leaves its own timer as the only one
\* armed, so that the events of a burst end in one reload; and a reload
\* is run by a timer whose 2 s have passed.
C20_AsClaimed ==
    /\ [](Cardinality(Armed(timers)) <= 1)
    /\ [][ /\ ev'.op \in {"fs_write", "fs_rename"}
                => Armed(timers') = {Len(timers')}
           /\ ev'.op = "reload"
                => \A k \in 1..Len(timers) :
                      timers'[k] # timers[k] => timers[k].left = 0 ]_vars

\* The data datagrams among the sends of a step.
DataSends(e) == { k \in 1..Len(e.udp) : e.udp[k].kind = "data" }

\* C17: in each direction a packet is forwarded by the step that read it or
\* by the next step of the same loop, at most once, and before the loop
\* reads again. The TUN read loop reads only when it holds no packet to
\* send, its send carries the packet it read last and is followed by a
\* read, and no other step sends a data datagram. The UDP receive loop
\* writes to the TUN, at most once, the datagram the same step received,
\* and besides the loopback of the TUN read loop no other step writes to
\* the TUN. So the datagrams sent are, in order, packets read, and the
\* packets written are, in order, datagrams received, none twice.
C17_InOrder ==
    [][ /\ ev'.op = "tun_read"
            => (tpc = "read" /\ tpkt' = ev'.pkt /\ ev'.udp = <<>>)
        /\ ev'.op = "tun_send"
            => /\ tpc = "send"
               /\ tpc' = "read"
               /\ tpkt' = tpkt
               /\ Len(ev'.udp) = 1
               /\ ev'.udp[1].kind = "data"
               /\ ev'.udp[1].bytes = tpkt
        /\ ev'.op # "tun_send" => DataSends(ev') = {}
        /\ ev'.op \in UdpOps
            => /\ Len(ev'.tun) <= 1
               /\ ev'.tun # <<>>
                    => (ev'.tun[1].bytes = ev'.pkt /\ ev'.op = "data")
               /\ upc = "read"
        /\ ev'.op \notin (UdpOps \cup {"tun_read"}) => ev'.tun = <<>> ]_vars

C17_Witness ==
    /\ ev.op = "tun_send"
    /\ ev.pkt = <<69, 1>>
    /\ DstOf(tbuf) = ContIPv4
    /\ ev.udp = <<Send(P1, "data", <<69, 1>>, 0, 0, TRUE)>>

\* C18, as the specification states it: once the addr flag has been
\* parsed, localIP is the peer address with its last octet one higher, both
\* lie in the subnet, and they differ.
C18_AsClaimed ==
    upc \notin {"start", "fatal"}
        => /\ localIP = [peer EXCEPT ![4] = @ + 1]
           /\ Contains(subnet, localIP)
           /\ Contains(subnet, peer)
           /\ localIP # peer

\* The steps of the start, and where run is before its loops.
StartOps == {"run", "parsed", "parse_failed", "listening", "listen_failed"}
PreRun == {"start", "listen", "peer", "fatal"}

\* C19: when the addr flag does not parse, or the socket cannot be bound,
\* run ends in its fatal state, which it never leaves and in which nothing
\* more happens; and up to there only steps of the start were taken, so
\* that no loop has run: the TUN read loop was not started, no datagram
\* was read or sent and nothing was read from or written to the TUN.
C19_FatalStart ==
    /\ [][ /\ ev'.op \in {"parse_failed", "listen_failed"} => upc' = "fatal"
           /\ ev'.op = "parsed" => addr.ok
           /\ upc' \in PreRun => (upc \in PreRun /\ ev'.op \in StartOps)
           /\ upc = "fatal" => (upc' = "fatal" /\ ev' = ev) ]_vars
    /\ [](upc \in PreRun
            => /\ tpc = "off"
               /\ ev.op \in StartOps
               /\ ev.udp = <<>> /\ ev.tun = <<>> /\ ev.sess = <<>>
               /\ data = ZeroBuf /\ tbuf = ZeroBuf /\ frame = <<>>)

C19_Witness ==
    /\ upc = "fatal"
    /\ ev.op = "listen_failed"
    /\ addr.ok
    /\ bind /\ iface
    /\ tpc = "off"

\* C21, as the specification states it: whenever lastCli is not empty it is
\* the string form of the peer the TUN read loop sends to.
C21_AsClaimed ==
    lastCli # "" => (cli # nil /\ lastCli = AddrString(cli))

\* C22, as the specification states it: once the header of a control frame
\* is sent, and until its last fragment is, a step that sends on the UDP
\* socket is the send of the frame's next fragment.
C22_AsClaimed ==
    [][ (upc = "chunk" /\ ev'.udp # <<>>) => ev'.op = "ctl_chunk" ]_vars

\* C23, as the specification states it: the send of a forwarded packet goes
\* to the address the nil test of that packet read, which is set.
C23_AsClaimed ==
    [][ ev'.op = "tun_send"
            => (ev'.udp[1].to # nil /\ ev'.udp[1].to = checked) ]_vars

\* C24: Stop sets the flag before its goroutine does anything; the goroutine
\* clears the routes, then closes the UDP socket, then closes the TUN; so a
\* loop whose read fails because of a close finds the flag set, and ends.
C24_StopOrder ==
    /\ [](spc # "idle" => stop)
    /\ [](connClosed => spc \in {"iface", "done"})
    /\ [](ifaceClosed => (connClosed /\ spc = "done"))
    /\ [][ /\ ev'.op = "stop" => (~stop /\ stop' /\ spc = "idle")
           /\ ev'.op = "stop_routes"
                => (stop /\ ~connClosed /\ ~ifaceClosed /\ installed' = {})
           /\ ev'.op = "stop_conn"
                => (stop /\ spc = "conn" /\ connClosed' /\ ~ifaceClosed)
           /\ ev'.op = "stop_iface"
                => (stop /\ connClosed /\ ifaceClosed' = iface)
           /\ (ev'.op = "udp_err" /\ connClosed) => upc' = "exit"
           /\ (ev'.op = "tun_err" /\ ifaceClosed) => tpc' = "exit" ]_vars

C24_Witness ==
    /\ spc = "done"
    /\ connClosed
    /\ ifaceClosed
    /\ upc = "exit"
    /\ tpc = "exit"
    /\ ev.op = "tun_err"

\* C25: while stop is false no loop has ended, and a failed read of the TUN
\* or of the UDP socket, a failed write to the TUN, a failed send to the peer
\* or a failed send to a session leaves the loop that made it at its next
\* read.
C25_TransientErrors ==
    /\ [](~stop => (upc # "exit" /\ tpc # "exit"))
    /\ [][ ~stop =>
             /\ ev'.op = "udp_err" => upc' = "read"
             /\ ev'.op = "tun_err" => tpc' = "read"
             /\ (ev'.op = "tun_read" /\ ev'.tun # <<>> /\ ~ev'.tun[1].ok)
                    => tpc' = "read"
             /\ (ev'.op = "tun_send" /\ ~ev'.udp[1].ok) => tpc' = "read"
             /\ (ev'.op = "data" /\ ev'.tun # <<>> /\ ~ev'.tun[1].ok)
                    => upc' = "read"
             /\ (ev'.op = "data" /\ ev'.sess # <<>> /\ ~ev'.sess[1].ok)
                    => upc' = "read" ]_vars

C25_Witness ==
    /\ ~stop
    /\ ev.op = "tun_send"
    /\ cli # nil
    /\ ~ev.udp[1].ok
    /\ tpc = "read"
    /\ upc = "read"

\* C26: a failed send of the TUN read loop to the peer leaves the peer,
\* lastCli and the memo file as they were, and a packet for another host that
\* the loop reads right after it is sent to the same peer.
C26_FailedSend ==
    [][ /\ (ev'.op = "tun_send" /\ ~ev'.udp[1].ok)
            => (cli' = cli /\ lastCli' = lastCli /\ memo' = memo
                /\ tpc' = "read")
        /\ (ev.op = "tun_send" /\ ~ev.udp[1].ok /\ ev.udp[1].to # nil
            /\ ev'.op = "tun_read" /\ ~IsLocal(tbuf'))
            => (tpc' = "send" /\ checked' = ev.udp[1].to)
        /\ (ev.op = "tun_read" /\ ev'.op = "tun_send")
            => ev'.udp[1].to = checked ]_vars

C26_Witness ==
    /\ ev.op = "tun_send"
    /\ ev.udp = <<Send(P1, "data", IPv4(ContIPv4, 1), 0, 0, FALSE)>>
    /\ cli = P1
    /\ lastCli = AddrString(P1)
    /\ memo = File(AddrString(P1))
    /\ tpc = "read"

\* C27: without bind there is no TUN, and without a TUN the TUN read loop
\* never runs and no datagram is written to a TUN, while the UDP receive
\* loop still makes the source of a heartbeat from a new address the peer
\* (lastCli, memo file, control push), still hands a config push to
\* appendConfig, and still sends a datagram for a session to that session.
C27_NoTun ==
    /\ [](~bind => ~iface)
    /\ [](~iface => tpc = "off")
    /\ [][ ~iface' =>
             /\ ev'.tun = <<>>
             /\ ev'.op \notin {"tun_read", "tun_send", "tun_err"}
             /\ PeerChange(ev', lastCli)
                    => /\ cli' = ev'.src
                       /\ lastCli' = AddrString(ev'.src)
                       /\ ev'.push = <<ev'.src>>
                       /\ MemoStep
             /\ ev'.op = "config"
                    => ev'.cfg = <<SubSeq(ev'.pkt, 2, Len(ev'.pkt))>>
             /\ (ev'.op = "data" /\ HasDst(ev'.pkt)
                 /\ DstOf(ev'.pkt) = SessIPv4)
                    => ev'.sess = <<Write(S1, ev'.pkt, ev'.sess[1].ok)>> ]_vars

C27_Witness ==
    /\ ~bind
    /\ ~iface
    /\ tpc = "off"
    /\ lastCli = AddrString(P1)
    /\ cli = P2
    /\ ev.op = "data"
    /\ ev.src = P2
    /\ ev.pkt = IPv4(LocalIPv4, 0)
    /\ ev.tun = <<>>

\* The sends of a whole control frame: the header, then fragments that
\* cover the payload from 0 to l in order, all to the peer of the push.
WholeFrame(f, c) ==
    /\ Len(f) >= 2
    /\ f[1].kind = "header"
    /\ f[1].bytes = Header(c.l)
    /\ \A k \in 1..Len(f) : f[k].to = c.to /\ f[k].ok
    /\ \A k \in 2..Len(f) : f[k].kind = "chunk"
    /\ f[2].lo = 0
    /\ f[Len(f)].hi = c.l
    /\ \A k \in 2..(Len(f) - 1) : f[k].hi = f[k + 1].lo

\* C28: the UDP receive loop is at a send of a control frame exactly while
\* the frame is unfinished, and when it reads again the frame of the last
\* heartbeat is whole, unless a send of it failed: no datagram is read,
\* and so no other frame is begun, between a header and its last fragment.
C28_FrameBeforeRead ==
    /\ [](upc \in {"header", "chunk"} <=> ctl.st \in {"header", "chunk"})
    /\ [][ ev'.op \in UdpOps \cup {"udp_err"} =>
             /\ upc = "read"
             /\ ctl.st \in {"idle", "empty", "done", "failed"}
             /\ ctl.st = "done" => WholeFrame(frame, ctl)
             /\ ctl.st = "failed" => ~frame[Len(frame)].ok ]_vars

C28_Witness ==
    /\ upc = "read"
    /\ ev.op = "ctl_chunk"
    /\ ctl.st = "done"
    /\ ctl.to = P2
    /\ lastCli = AddrString(P2)
    /\ Len(frame) >= 3
    /\ WholeFrame(frame, ctl)

\* C29: a packet for another host than localIP that is read from the TUN
\* while no peer is set is dropped: nothing is sent or written for it, the
\* loop is at its next read, and no later send is of a packet other than
\* the one read last, which passed the test with a peer set.
C29_DropWithoutPeer ==
    [][ /\ (ev'.op = "tun_read" /\ HasDst(ev'.pkt)
            /\ DstOf(ev'.pkt) # localIP /\ cli = nil)
            => (ev'.udp = <<>> /\ ev'.tun = <<>> /\ tpc' = "read"
                /\ checked' = nil)
        /\ ev'.op = "tun_send"
            => (tpc = "send" /\ checked # nil /\ ev'.pkt = tpkt
                /\ ev'.udp[1].bytes = tpkt) ]_vars

C29_Witness ==
    /\ ev.op = "tun_read"
    /\ ev.pkt = IPv4(ContIPv4, 1)
    /\ cli = nil
    /\ lastCli = AddrString(P1)
    /\ ev.udp = <<>>
    /\ ev.tun = <<>>
    /\ tpc = "read"

\* The sends of a control frame.
CtlOps == {"ctl_header", "ctl_chunk"}

\* C30: a failed send of a header or of a fragment ends the frame, with the
\* loop back at its read and lastCli, the memo file and cli as the heartbeat
\* left them; a send of a frame is made only when every earlier send of the
\* frame succeeded; a frame is begun only by a heartbeat from another
\* address than lastCli's, and a heartbeat from lastCli's address sends
\* nothing.
C30_Abandoned ==
    [][ /\ (ev'.op \in CtlOps /\ ~ev'.udp[1].ok)
            => /\ upc' = "read"
               /\ ctl'.st = "failed"
               /\ lastCli' = lastCli /\ lastCli = AddrString(ctl.to)
               /\ memo' = memo
               /\ cli' = cli
        /\ ev'.op \in CtlOps
            => /\ ctl.st \in {"header", "chunk"}
               /\ \A k \in 1..Len(frame) : frame[k].ok
               /\ ev'.udp[1].to = ctl.to
        /\ (ctl'.st = "header" /\ ctl.st # "header")
            => PeerChange(ev', lastCli)
        /\ (ev'.op = "heartbeat" /\ ~PeerChange(ev', lastCli))
            => (ev'.push = <<>> /\ ev'.udp = <<>> /\ upc' = "read"
                /\ ctl'.st = "idle") ]_vars

C30_Witness ==
    /\ ev.op = "ctl_chunk"
    /\ ~ev.udp[1].ok
    /\ ctl.st = "failed"
    /\ Len(frame) = 2
    /\ ctl.i + MTU < ctl.l
    /\ upc = "read"
    /\ cli = ctl.to
    /\ lastCli = AddrString(ctl.to)

\* C35: lastCli is empty until the first heartbeat and never after it; the
\* first heartbeat calls sendControls for its source, whatever the peer
\* that run started with, and a later heartbeat from the address of
\* lastCli calls it for nobody.
C35_FirstHeartbeat ==
    [][ /\ ev'.op = "heartbeat" => lastCli' = AddrString(ev'.src)
        /\ ev'.op # "heartbeat" => lastCli' = lastCli
        /\ (ev'.op = "heartbeat" /\ lastCli = "")
            => (ev'.push = <<ev'.src>> /\ ctl'.to = ev'.src
                /\ ctl'.st \in {"header", "empty"})
        /\ (ev'.op = "heartbeat" /\ lastCli = AddrString(ev'.src))
            => (ev'.push = <<>> /\ ctl'.st = "idle" /\ upc' = "read") ]_vars

C35_Witness ==
    /\ cliAddr = AddrString(P1)
    /\ ev.op = "heartbeat"
    /\ ev.src = P1
    /\ ev.push = <<P1>>
    /\ ctl.to = P1
    /\ ctl.st = "header"
    /\ memo = File(AddrString(P2))

\* The sink of a received datagram by its own bytes alone, which is the sink
\* it has when it is read into a buffer no earlier datagram has written.
OwnSink(pkt) ==
    LET n == Len(pkt)
        d == ReadInto(ZeroBuf, pkt)
    IN  IF IsHeartbeat(d, n) THEN "heartbeat"
        ELSE IF IsControl(d, n) THEN "config"
        ELSE IF SessionOf(d, n) # nil THEN "session"
        ELSE IF bind /\ iface THEN "tun"
        ELSE "none"

\* The sink the step of the UDP receive loop chose.
SinkOf(e) ==
    IF e.op # "data" THEN e.op
    ELSE IF e.sess # <<>> THEN "session"
    ELSE IF e.tun # <<>> THEN "tun"
    ELSE "none"

\* C32, as the specification states it: the sink of a datagram, and whether
\* a packet read from the TUN is written back to it, are those its own
\* bytes give, whatever earlier datagrams and packets were.
C32_AsClaimed ==
    [][ /\ ev'.op \in UdpOps => SinkOf(ev') = OwnSink(ev'.pkt)
        /\ ev'.op = "tun_read"
            => (ev'.tun # <<>> <=> IsLocal(ReadInto(ZeroBuf, ev'.pkt))) ]_vars

\* The intents of a table in an order of its keys, with a comma between each
\* two.
RECURSIVE JoinIntentsOf(_, _, _)
JoinIntentsOf(t, order, n) ==
    IF n = 0 THEN ""
    ELSE (IF n = 1 THEN "" ELSE JoinIntentsOf(t, order, n - 1) \o ",")
         \o (IF t[order[n]] THEN "connect" ELSE "disconnect")
         \o " " \o order[n]

\* A control payload made of the tables of generation g alone.
OfGeneration(c, g) ==
    /\ \E o \in Orders(DOMAIN g.tables) :
          c.reply = JoinIntentsOf(g.tables, o, Cardinality(DOMAIN g.tables))
    /\ c.l = Len(c.reply) + g.hosts

\* C31, as the specification states it: the payload of a control push made
\* beside a reload has the intents and the hosts block of one generation of
\* the config, the one before the reload or the one after it.
C31_AsClaimed ==
    ctl.st # "idle" => (OfGeneration(ctl, OldGen) \/ OfGeneration(ctl, NewGen))

\* run is past its start: the socket is bound, the loops are started.
Started == upc \in {"read", "header", "chunk", "exit"}

\* A step of a loop that forwards something, or takes a datagram or a
\* packet in.
Forwards(e) ==
    \/ e.op \in UdpOps
    \/ e.op = "tun_read"
    \/ (e.op = "tun_send" /\ e.udp[1].ok)

\* C33, as the specification states it: wherever in run Stop was called,
\* once the goroutine of Stop is done and run is past its start, the socket
\* of the run is closed and its TUN, when it has one, is closed, and no
\* loop forwards any more.
C33_AsClaimed ==
    /\ []((spc = "done" /\ Started) => (connClosed /\ ifaceClosed = iface))
    /\ [][ (spc = "done" /\ Started) => ~Forwards(ev') ]_vars

\* C34, as the specification states it: a loop of a stopped run whose read
\* fails on its closed socket or its closed TUN ends, also when Start was
\* called after the Stop.
C34_AsClaimed ==
    [][ /\ (connClosed /\ ev'.op = "udp_err") => upc' = "exit"
        /\ (ifaceClosed /\ ev'.op = "tun_err") => tpc' = "exit" ]_vars

====
